---- MODULE Spec2Model ----
(***************************************************************************)
(* Model of plugins/changelog/hooks/check-changelog-before-commit.py: the  *)
(* UserPromptSubmit hook that blocks a commit request when the changelog   *)
(* was not updated or still holds empty category headings.                 *)
(*                                                                         *)
(* Python strings are sequences of one-character strings, so that the      *)
(* regular expressions and the substring tests of the hook are computed on *)
(* characters, as re and the `in` operator compute them.                   *)
(***************************************************************************)
EXTENDS Integers, Sequences, FiniteSets

\* Bounds of the model.
MaxLines == 2
MaxPaths == 1

----------------------------------------------------------------------------
\* Text

UpperCase ==
  <<"A", "B", "C", "D", "E", "F", "G", "H", "I", "J", "K", "L", "M",
    "N", "O", "P", "Q", "R", "S", "T", "U", "V", "W", "X", "Y", "Z">>
LowerCase ==
  <<"a", "b", "c", "d", "e", "f", "g", "h", "i", "j", "k", "l", "m",
    "n", "o", "p", "q", "r", "s", "t", "u", "v", "w", "x", "y", "z">>
Digits == {"0", "1", "2", "3", "4", "5", "6", "7", "8", "9"}

\* \w and \s of the re module, on the characters the model uses.
WordChars ==
  {UpperCase[i] : i \in 1..26} \cup {LowerCase[i] : i \in 1..26} \cup Digits \cup {"_"}
Whitespace == {" ", "\n", "\t"}

\* The characters of every word, line, path and literal of the model.
Text(w) ==
  CASE w = " " -> <<" ">>
    [] w = "  " -> <<" ", " ">>
    [] w = "git" -> <<"g", "i", "t">>
    [] w = "commit" -> <<"c", "o", "m", "m", "i", "t">>
    [] w = "the" -> <<"t", "h", "e">>
    [] w = "changes" -> <<"c", "h", "a", "n", "g", "e", "s">>
    [] w = "change" -> <<"c", "h", "a", "n", "g", "e">>
    [] w = "s" -> <<"s">>
    [] w = "create" -> <<"c", "r", "e", "a", "t", "e">>
    [] w = "make" -> <<"m", "a", "k", "e">>
    [] w = "a" -> <<"a">>
    [] w = "to" -> <<"t", "o">>
    [] w = "please" -> <<"p", "l", "e", "a", "s", "e">>
    [] w = "this" -> <<"t", "h", "i", "s">>
    [] w = "what" -> <<"w", "h", "a", "t">>
    [] w = "time" -> <<"t", "i", "m", "e">>
    [] w = "is" -> <<"i", "s">>
    [] w = "it" -> <<"i", "t">>
    [] w = "I" -> <<"I">>
    [] w = "already" -> <<"a", "l", "r", "e", "a", "d", "y">>
    [] w = "committed" -> <<"c", "o", "m", "m", "i", "t", "t", "e", "d">>
    [] w = "yesterday" -> <<"y", "e", "s", "t", "e", "r", "d", "a", "y">>
    [] w = "Make" -> <<"M", "a", "k", "e">>
    [] w = "A" -> <<"A">>
    [] w = "Commit" -> <<"C", "o", "m", "m", "i", "t">>
    [] w = "legit" -> <<"l", "e", "g", "i", "t">>
    [] w = "commits" -> <<"c", "o", "m", "m", "i", "t", "s">>
    [] w = "## [Unreleased]" ->
         <<"#", "#", " ", "[", "U", "n", "r", "e", "l", "e", "a", "s", "e", "d", "]">>
    [] w = "## [" -> <<"#", "#", " ", "[">>
    [] w = "###" -> <<"#", "#", "#">>
    [] w = "### " -> <<"#", "#", "#", " ">>
    [] w = "<!--" -> <<"<", "!", "-", "-">>
    [] w = "-->" -> <<"-", "-", ">">>
    [] w = "Added" -> <<"A", "d", "d", "e", "d">>
    [] w = "Changed" -> <<"C", "h", "a", "n", "g", "e", "d">>
    [] w = "Deprecated" -> <<"D", "e", "p", "r", "e", "c", "a", "t", "e", "d">>
    [] w = "Removed" -> <<"R", "e", "m", "o", "v", "e", "d">>
    [] w = "Fixed" -> <<"F", "i", "x", "e", "d">>
    [] w = "Security" -> <<"S", "e", "c", "u", "r", "i", "t", "y">>
    [] w = "### Added" -> <<"#", "#", "#", " ", "A", "d", "d", "e", "d">>
    [] w = "### Fixed" -> <<"#", "#", "#", " ", "F", "i", "x", "e", "d">>
    [] w = "## [1.0.0]" -> <<"#", "#", " ", "[", "1", ".", "0", ".", "0", "]">>
    [] w = "- item" -> <<"-", " ", "i", "t", "e", "m">>
    [] w = "<!-- note -->" ->
         <<"<", "!", "-", "-", " ", "n", "o", "t", "e", " ", "-", "-", ">">>
    [] w = "#### API" -> <<"#", "#", "#", "#", " ", "A", "P", "I">>
    [] w = "" -> <<>>
    [] w = "CHANGELOG.md" ->
         <<"C", "H", "A", "N", "G", "E", "L", "O", "G", ".", "m", "d">>
    [] w = "CHANGELOG.MD" ->
         <<"C", "H", "A", "N", "G", "E", "L", "O", "G", ".", "M", "D">>
    [] w = "changelog.md" ->
         <<"c", "h", "a", "n", "g", "e", "l", "o", "g", ".", "m", "d">>
    [] w = "docs/CHANGELOG.md" ->
         <<"d", "o", "c", "s", "/", "C", "H", "A", "N", "G", "E", "L", "O", "G", ".", "m", "d">>
    [] w = "src/main.py" -> <<"s", "r", "c", "/", "m", "a", "i", "n", ".", "p", "y">>

RECURSIVE Concat(_)
\* The concatenation of the texts of the tokens ws.
Concat(ws) == IF ws = <<>> THEN <<>> ELSE Text(Head(ws)) \o Concat(Tail(ws))

RECURSIVE JoinWith(_, _)
\* sep.join(parts), on character sequences.
JoinWith(sep, parts) ==
  IF parts = <<>> THEN <<>>
  ELSE IF Len(parts) = 1 THEN Head(parts)
  ELSE Head(parts) \o sep \o JoinWith(sep, Tail(parts))

RECURSIVE LowerFrom(_, _)
\* The lower-case letter of c, looked up from the k-th letter on.
LowerFrom(c, k) ==
  IF k > Len(UpperCase) THEN c
  ELSE IF UpperCase[k] = c THEN LowerCase[k]
  ELSE LowerFrom(c, k + 1)

\* str.lower()
Lower(s) == [i \in 1..Len(s) |-> LowerFrom(s[i], 1)]

RECURSIVE LStrip(_)
LStrip(s) == IF s # <<>> /\ Head(s) \in Whitespace THEN LStrip(Tail(s)) ELSE s

RECURSIVE RStrip(_)
RStrip(s) ==
  IF s # <<>> /\ s[Len(s)] \in Whitespace THEN RStrip(SubSeq(s, 1, Len(s) - 1)) ELSE s

\* str.strip()
Strip(s) == RStrip(LStrip(s))

\* s[i:].startswith(lit), i counted from 1.
StartsAt(s, i, lit) ==
  /\ i >= 1
  /\ i + Len(lit) - 1 <= Len(s)
  /\ SubSeq(s, i, i + Len(lit) - 1) = lit

RECURSIVE FindFrom(_, _, _)
\* The first index >= i at which lit occurs in s, 0 when there is none.
FindFrom(s, i, lit) ==
  IF i + Len(lit) - 1 > Len(s) THEN 0
  ELSE IF StartsAt(s, i, lit) THEN i
  ELSE FindFrom(s, i + 1, lit)

\* lit in s
Contains(s, lit) == \E j \in 1..(Len(s) + 1) : StartsAt(s, j, lit)

----------------------------------------------------------------------------
\* Regular expressions of is_commit_attempt, as sets of positions: a
\* position is the index of the next character to read, 1..Len(s)+1.

Positions(s) == 1..(Len(s) + 1)

IsWordAt(s, i) == i \in 1..Len(s) /\ s[i] \in WordChars

\* \b
WordBoundary(s, S) == {p \in S : IsWordAt(s, p - 1) # IsWordAt(s, p)}

\* a literal
Lit(s, S, w) == {p + Len(Text(w)) : p \in {q \in S : StartsAt(s, q, Text(w))}}

\* \s+
Spaces1(s, S) ==
  {q \in Positions(s) : \E p \in S : p < q /\ \A k \in p..(q - 1) : s[k] \in Whitespace}

\* .* (without DOTALL: any character but a newline)
AnyStar(s, S) ==
  {q \in Positions(s) : \E p \in S : p <= q /\ \A k \in p..(q - 1) : s[k] # "\n"}

\* r"\bgit\s+commit\b"
GitCommit(s) ==
  WordBoundary(s, Lit(s, Spaces1(s, Lit(s, WordBoundary(s, Positions(s)), "git")), "commit"))

\* r"\bcommit\s+(the\s+)?changes?\b"
CommitChanges(s) ==
  LET c == Spaces1(s, Lit(s, WordBoundary(s, Positions(s)), "commit"))
      t == c \cup Spaces1(s, Lit(s, c, "the"))
      g == Lit(s, t, "change")
  IN  WordBoundary(s, g \cup Lit(s, g, "s"))

\* r"\b<verb>\s+a\s+commit\b", for create and make
VerbACommit(s, verb) ==
  LET v == Spaces1(s, Lit(s, WordBoundary(s, Positions(s)), verb))
  IN  WordBoundary(s, Lit(s, Spaces1(s, Lit(s, v, "a")), "commit"))

\* r"\bcommit\s+.*\s+to\s+git\b"
CommitToGit(s) ==
  LET c == Spaces1(s, Lit(s, WordBoundary(s, Positions(s)), "commit"))
      a == Spaces1(s, AnyStar(s, c))
  IN  WordBoundary(s, Lit(s, Spaces1(s, Lit(s, a, "to")), "git"))

\* commit_patterns
is_commit_attempt(s) ==
  LET prompt_lower == Lower(s)
  IN  \/ GitCommit(prompt_lower) # {}
      \/ CommitChanges(prompt_lower) # {}
      \/ VerbACommit(prompt_lower, "create") # {}
      \/ VerbACommit(prompt_lower, "make") # {}
      \/ CommitToGit(prompt_lower) # {}

----------------------------------------------------------------------------
\* check_unused_sections: the text of the changelog

\* categories
Categories == <<"Added", "Changed", "Deprecated", "Removed", "Fixed", "Security">>

\* re.search(r'## \[Unreleased\](.*?)(?=## \[|\Z)', s, re.DOTALL):
\* found is FALSE for no match, text is group(1).
unreleased_match(s) ==
  LET u     == FindFrom(s, 1, Text("## [Unreleased]"))
      start == u + Len(Text("## [Unreleased]"))
      e     == FindFrom(s, start, Text("## ["))
  IN  IF u = 0 THEN [found |-> FALSE, text |-> <<>>]
      ELSE [found |-> TRUE,
            text  |-> SubSeq(s, start, IF e = 0 THEN Len(s) ELSE e - 1)]

RECURSIVE SpaceRunEnd(_, _)
\* The last index of the longest run of whitespace that starts at a (a - 1
\* when the run is empty).
SpaceRunEnd(s, a) ==
  IF a > Len(s) \/ s[a] \notin Whitespace THEN a - 1 ELSE SpaceRunEnd(s, a + 1)

RECURSIVE LastNewline(_, _, _)
\* The last index in a..b of a newline of s, 0 when there is none.
LastNewline(s, a, b) ==
  IF b < a THEN 0
  ELSE IF s[b] = "\n" THEN b
  ELSE LastNewline(s, a, b - 1)

\* Where rf'### {category}\s*\n' matches at index i of s: the literal, then
\* whitespace that holds a newline.
HeadingAt(s, i, category) ==
  LET lit == Text("### ") \o Text(category)
      a   == i + Len(lit)
  IN  /\ StartsAt(s, i, lit)
      /\ LastNewline(s, a, SpaceRunEnd(s, a)) # 0

RECURSIVE SearchHeading(_, _, _)
\* The first index >= i at which category_pattern matches, 0 for no match.
SearchHeading(s, i, category) ==
  IF i > Len(s) THEN 0
  ELSE IF HeadingAt(s, i, category) THEN i
  ELSE SearchHeading(s, i + 1, category)

\* re.search(category_pattern, s): the index of the leftmost match, 0 for none.
category_search(s, category) == SearchHeading(s, 1, category)

\* group(1) of rf'### {category}\s*\n(.*?)(?=###|\Z)' at its leftmost match i:
\* the greedy \s* gives back up to the last newline of the whitespace run, and
\* the lazy group stops before the first "###" or at the end.
content_match(s, i, category) ==
  LET a == i + Len(Text("### ") \o Text(category))
      q == LastNewline(s, a, SpaceRunEnd(s, a))
      h == FindFrom(s, q + 1, Text("###"))
  IN  SubSeq(s, q + 1, IF h = 0 THEN Len(s) ELSE h - 1)

RECURSIVE filter_comments(_)
\* re.sub(r'<!--.*?-->', '', s, flags=re.DOTALL)
filter_comments(s) ==
  LET o == FindFrom(s, 1, Text("<!--"))
      c == IF o = 0 THEN 0 ELSE FindFrom(s, o + Len(Text("<!--")), Text("-->"))
  IN  IF o = 0 \/ c = 0 THEN s
      ELSE SubSeq(s, 1, o - 1)
             \o filter_comments(SubSeq(s, c + Len(Text("-->")), Len(s)))

\* The body of the loop over categories: whether category is appended to
\* empty_sections.
is_empty_section(unreleased_section, category) ==
  LET i == category_search(unreleased_section, category)
  IN  /\ i # 0
      /\ Strip(filter_comments(Strip(content_match(unreleased_section, i, category)))) = <<>>

\* The value check_unused_sections returns when read_text returns s. None and
\* the empty list are both the empty sequence: the function returns None for
\* an empty list and main only tests the value's truth.
empty_sections_of(s) ==
  LET m == unreleased_match(s)
  IN  IF ~m.found THEN <<>>
      ELSE SelectSeq(Categories, LAMBDA c : is_empty_section(m.text, c))

----------------------------------------------------------------------------
\* The inputs: prompts, changelog documents, git listings

BoundedSeq(S, n) == UNION {[1..k -> S] : k \in 0..n}

\* Prompts, as words and the whitespace between them.
Prompts ==
  { <<"please", " ", "git", " ", "commit", " ", "this">>,
    <<"commit", " ", "the", " ", "changes">>,
    <<"Make", "  ", "A", " ", "Commit">>,
    <<"commit", " ", "it", " ", "to", " ", "git">>,
    <<"what", " ", "time", " ", "is", " ", "it">>,
    <<"I", " ", "already", " ", "committed", " ", "this", " ", "yesterday">>,
    <<"legit", " ", "commits">> }

\* The lines a changelog is made of, below its "## [Unreleased]" heading.
BodyLines ==
  {"## [1.0.0]", "### Added", "### Fixed", "- item", "<!-- note -->", "#### API", ""}

\* A changelog: whether it starts with the Unreleased heading, the lines that
\* follow, and whether the last line ends with a newline.
Documents ==
  [unreleased : BOOLEAN, body : BoundedSeq(BodyLines, MaxLines), eol : BOOLEAN]

DocLines(d) == (IF d.unreleased THEN <<"## [Unreleased]">> ELSE <<>>) \o d.body

\* The text read_text returns for the document d.
DocText(d) ==
  JoinWith(<<"\n">>, [i \in 1..Len(DocLines(d)) |-> Text(DocLines(d)[i])])
    \o (IF d.eol THEN <<"\n">> ELSE <<>>)

\* The three names both functions look for, in the order of their loops.
ChangelogNames == <<"CHANGELOG.md", "CHANGELOG.MD", "changelog.md">>
Candidates == {ChangelogNames[i] : i \in 1..Len(ChangelogNames)}

\* The paths git may list, in the order git prints them.
GitPaths ==
  <<"CHANGELOG.MD", "CHANGELOG.md", "changelog.md", "docs/CHANGELOG.md", "src/main.py">>

\* The listings of git diff --name-only: up to MaxPaths paths.
Listings ==
  {SelectSeq(GitPaths, LAMBDA p : p \in S) :
     S \in {T \in SUBSET {GitPaths[i] : i \in 1..Len(GitPaths)} : Cardinality(T) <= MaxPaths}}

\* The standard output of a listing: one path per line.
ListingText(l) ==
  IF l = <<>> THEN <<>>
  ELSE JoinWith(<<"\n">>, [i \in 1..Len(l) |-> Text(l[i])]) \o <<"\n">>

\* What a git process does: it writes a listing and exits 0, exits non-zero,
\* or subprocess.run raises (the timeout expires, git cannot be started).
Replies == [status : {"exit0", "exitN", "raised"}, listing : Listings]

\* run_git_command without its except clause's empty string: what the process
\* had written is kept when subprocess.run raises.
run_git_command_keeping_output(reply) ==
  [out |-> Strip(ListingText(reply.listing)),
   returncode |-> IF reply.status = "exit0" THEN 0 ELSE 1]

\* run_git_command: (stdout.strip(), returncode), or ("", 1) when
\* subprocess.run raises.
run_git_command(reply) ==
  IF reply.status = "raised" THEN [out |-> <<>>, returncode |-> 1]
  ELSE [out |-> Strip(ListingText(reply.listing)),
        returncode |-> IF reply.status = "exit0" THEN 0 ELSE 128]

\* The graph of check_unused_sections on the documents, computed once.
ChangelogAnalyses ==
  {[doc |-> d, empty_sections |-> empty_sections_of(DocText(d))] : d \in Documents}

\* ", ".join(empty_sections)
sections_list(names) ==
  [i \in 1..(2 * Len(names) - 1) |->
     IF i % 2 = 1 THEN names[(i + 1) \div 2] ELSE ", "]

\* The payload main prints when the changelog was not updated.
UpdateRequired ==
  [decision          |-> "block",
   reason            |-> "Changelog update required!",
   sections          |-> <<>>,
   hookEventName     |-> "UserPromptSubmit",
   additionalContext |-> "The changelog must be updated before committing code changes."]

\* The payload main prints when the changelog holds empty sections.
CleanupRequired(names) ==
  [decision          |-> "block",
   reason            |-> "Changelog cleanup required!",
   sections          |-> sections_list(names),
   hookEventName     |-> "UserPromptSubmit",
   additionalContext |-> "Empty changelog sections should be removed before committing."]

\* The prompt field of the event: absent, a JSON number, or a string.
PromptFields ==
  {[type |-> "missing", words |-> <<>>], [type |-> "number", words |-> <<>>]}
    \cup [type : {"str"}, words : Prompts]

\* The cwd field of the event: absent, a path of a directory, a path of a
\* directory the process may not search, null, or a JSON number.
CwdFields == {"missing", "path", "denied", "null", "number"}

\* What the host writes to stdin: text that is no JSON, a JSON array, or an
\* object.
Events ==
  {[json |-> j, prompt |-> [type |-> "missing", words |-> <<>>], cwd |-> "missing"] :
     j \in {"malformed", "array"}}
    \cup [json : {"object"}, prompt : PromptFields, cwd : CwdFields]

----------------------------------------------------------------------------
\* What a document holds, read line by line: the reference the properties
\* compare the hook's findings with.

RECURSIVE UpToRelease(_)
\* The lines before the first heading of a release.
UpToRelease(lines) ==
  IF lines = <<>> \/ Head(lines) = "## [1.0.0]" THEN <<>>
  ELSE <<Head(lines)>> \o UpToRelease(Tail(lines))

\* The lines of the Unreleased section of d.
SectionLines(d) == IF d.unreleased THEN UpToRelease(d.body) ELSE <<>>

\* The heading line of a category.
HeadingLine(category) == "### " \o category

\* The level-3 headings among the lines of the model.
IsHeading(line) == line \in {"### Added", "### Fixed"}

\* Lines that hold only whitespace or a comment.
IsBlank(line) == line \in {"", "<!-- note -->"}

\* The heading at line i has nothing but blank lines up to the next level-3
\* heading or the end of the section.
EmptyBelow(sec, i) ==
  \A k \in (i + 1)..Len(sec) :
    (\A j \in (i + 1)..(k - 1) : ~IsHeading(sec[j])) => (IsHeading(sec[k]) \/ IsBlank(sec[k]))

Occurrences(sec, category) == {i \in 1..Len(sec) : sec[i] = HeadingLine(category)}

\* Whether d was read, has an Unreleased heading, names no category twice in
\* its Unreleased section, and the categories whose heading is there with
\* nothing beneath it, in the order of Categories.
FactsOf(d) ==
  LET sec == SectionLines(d)
  IN  [read    |-> TRUE,
       section |-> d.unreleased,
       unique  |-> \A i \in 1..Len(Categories) :
                     Cardinality(Occurrences(sec, Categories[i])) <= 1,
       empty   |-> SelectSeq(Categories,
                     LAMBDA c : \E i \in Occurrences(sec, c) : EmptyBelow(sec, i))]

----------------------------------------------------------------------------
\* The state

VARIABLES
  stdin,           \* the events the host has written and main has not read
  exists,          \* which changelog names exist at the top of the directory
  pc,              \* where main is
  prompt,          \* main: prompt
  cwd,             \* main: cwd
  frame,           \* check_changelog_modified: its local variables
  modified,        \* what check_changelog_modified returned
  content,         \* check_unused_sections: the document read_text returned
  empty_sections,  \* what check_unused_sections returned
  error,           \* the exception on its way to main's except clause
  stdout,          \* what was printed on standard output
  stderr,          \* what was printed on standard error
  exit_code,       \* the exit code, -1 while the process runs
  git_log,         \* the git commands run so far, and how each ended
  fs_log,          \* the filesystem calls made so far
  listed,          \* the existing changelog names git has listed so far, exiting 0
  facts            \* what the document read holds, line by line

vars ==
  <<stdin, exists, pc, prompt, cwd, frame, modified, content, empty_sections,
    error, stdout, stderr, exit_code, git_log, fs_log, listed, facts>>

NoFrame == [changelog_files |-> <<>>, staged_output |-> <<>>, unstaged_output |-> <<>>]
NoContent == [read |-> FALSE, doc |-> [unreleased |-> FALSE, body |-> <<>>, eol |-> FALSE]]

NoFacts == [read |-> FALSE, section |-> FALSE, unique |-> FALSE, empty |-> <<>>]

Init ==
  /\ stdin \in {<<e>> : e \in Events}
  /\ exists \in [Candidates -> BOOLEAN]
  /\ pc = "start"
  /\ prompt = [type |-> "unset", words |-> <<>>]
  /\ cwd = "unset"
  /\ frame = NoFrame
  /\ modified = "unset"
  /\ content = NoContent
  /\ empty_sections = <<>>
  /\ error = "none"
  /\ stdout = <<>>
  /\ stderr = <<>>
  /\ exit_code = -1
  /\ git_log = <<>>
  /\ fs_log = <<>>
  /\ listed = {}
  /\ facts = NoFacts

----------------------------------------------------------------------------
\* main and the functions it calls

\* An exception leaves the try block of main for its except clause.
Raise(e) ==
  /\ pc' = "except"
  /\ error' = e

\* sys.exit(code): SystemExit is no Exception, the except clause lets it pass.
Exit(code) ==
  /\ pc' = "done"
  /\ exit_code' = code

Entries(l) == {l[i] : i \in 1..Len(l)}

\* The names of changelog_files that are paths of the listing of a reply that
\* exited 0.
Listed(changelog_files, reply) ==
  IF reply.status = "exit0"
  THEN Entries(changelog_files) \cap Entries(reply.listing)
  ELSE {}

\* fs_log after Path(cwd) / name was asked whether it exists, for the first n names.
Looked(n) ==
  fs_log \o [i \in 1..n |-> [op |-> "exists", file |-> ChangelogNames[i]]]

\* main: json.load(sys.stdin) and the two input_data.get
ReadInput ==
  /\ pc = "start"
  /\ stdin' = Tail(stdin)
  /\ LET input_data == Head(stdin)
     IN  IF input_data.json = "malformed" THEN
           Raise("JSONDecodeError") /\ UNCHANGED <<prompt, cwd>>
         ELSE IF input_data.json = "array" THEN
           Raise("AttributeError") /\ UNCHANGED <<prompt, cwd>>
         ELSE
           /\ prompt' = IF input_data.prompt.type = "missing"
                        THEN [type |-> "str", words |-> <<>>]
                        ELSE input_data.prompt
           /\ cwd' = IF input_data.cwd = "missing" THEN "path" ELSE input_data.cwd
           /\ pc' = "classify"
           /\ UNCHANGED error
  /\ UNCHANGED <<exists, frame, modified, content, empty_sections,
                 stdout, stderr, exit_code, git_log, fs_log, listed, facts>>

\* main without the early exit: every prompt that is a string is checked.
ClassifyEveryPrompt ==
  /\ pc = "classify"
  /\ IF prompt.type # "str"
     THEN Raise("AttributeError")
     ELSE pc' = "rev_parse" /\ UNCHANGED error
  /\ UNCHANGED <<stdin, exists, prompt, cwd, frame, modified, content, empty_sections,
                 stdout, stderr, exit_code, git_log, fs_log, listed, facts>>

\* main: if not is_commit_attempt(prompt): sys.exit(0)
Classify ==
  /\ pc = "classify"
  /\ IF prompt.type # "str" THEN
       Raise("AttributeError") /\ UNCHANGED exit_code
     ELSE IF ~is_commit_attempt(Concat(prompt.words)) THEN
       Exit(0) /\ UNCHANGED error
     ELSE
       pc' = "rev_parse" /\ UNCHANGED <<error, exit_code>>
  /\ UNCHANGED <<stdin, exists, prompt, cwd, frame, modified, content,
                 empty_sections, stdout, stderr, git_log, fs_log, listed, facts>>

\* How git rev-parse --git-dir may end in cwd: subprocess.run raises for a cwd
\* that is no path or cannot be entered; for None it runs where the hook runs.
ProbeReplies(dir) ==
  IF dir \in {"number", "denied"}
  THEN {[status |-> "raised", listing |-> <<>>]}
  ELSE {r \in Replies : r.listing = <<>>}

\* check_changelog_modified: the probe for a git repository
RevParse ==
  /\ pc = "rev_parse"
  /\ \E reply \in ProbeReplies(cwd) :
       /\ git_log' = Append(git_log, [cmd |-> "rev-parse --git-dir", status |-> reply.status])
       /\ IF run_git_command(reply).returncode # 0
          THEN modified' = "True" /\ pc' = "locate"
          ELSE modified' = modified /\ pc' = "find"
  /\ UNCHANGED <<stdin, exists, prompt, cwd, frame, content, empty_sections,
                 error, stdout, stderr, exit_code, fs_log, listed, facts>>

\* check_changelog_modified returning True where no changelog file exists.
FindChangelogsLenient ==
  /\ pc = "find"
  /\ IF cwd = "null" THEN
       Raise("TypeError") /\ UNCHANGED <<frame, modified, fs_log>>
     ELSE
       LET changelog_files == SelectSeq(ChangelogNames, LAMBDA n : exists[n])
       IN  /\ fs_log' = Looked(Len(ChangelogNames))
           /\ frame' = [frame EXCEPT !.changelog_files = changelog_files]
           /\ IF changelog_files = <<>>
              THEN modified' = "True" /\ pc' = "locate"
              ELSE modified' = modified /\ pc' = "diff_cached"
           /\ UNCHANGED error
  /\ UNCHANGED <<stdin, exists, prompt, cwd, content, empty_sections,
                 stdout, stderr, exit_code, git_log, listed, facts>>

\* check_changelog_modified: the changelog files that exist
FindChangelogs ==
  /\ pc = "find"
  /\ IF cwd = "null" THEN
       Raise("TypeError") /\ UNCHANGED <<frame, modified, fs_log>>
     ELSE
       LET changelog_files == SelectSeq(ChangelogNames, LAMBDA n : exists[n])
       IN  /\ fs_log' = Looked(Len(ChangelogNames))
           /\ frame' = [frame EXCEPT !.changelog_files = changelog_files]
           /\ IF changelog_files = <<>>
              THEN modified' = "False" /\ pc' = "decide"
              ELSE modified' = modified /\ pc' = "diff_cached"
           /\ UNCHANGED error
  /\ UNCHANGED <<stdin, exists, prompt, cwd, content, empty_sections,
                 stdout, stderr, exit_code, git_log, listed, facts>>

\* for changelog_file in changelog_files: if changelog_file in output
InOutput(changelog_files, output) ==
  \E i \in 1..Len(changelog_files) : Contains(output, Text(changelog_files[i]))

\* check_changelog_modified: git diff --cached --name-only
DiffCached ==
  /\ pc = "diff_cached"
  /\ \E reply \in Replies :
       /\ git_log' = Append(git_log, [cmd |-> "diff --cached --name-only", status |-> reply.status])
       /\ frame' = [frame EXCEPT !.staged_output = run_git_command(reply).out]
       /\ listed' = listed \cup Listed(frame.changelog_files, reply)
       /\ IF InOutput(frame.changelog_files, run_git_command(reply).out)
          THEN modified' = "True" /\ pc' = "locate"
          ELSE modified' = modified /\ pc' = "diff_worktree"
  /\ UNCHANGED <<stdin, exists, prompt, cwd, content, empty_sections,
                 error, stdout, stderr, exit_code, fs_log, facts>>

\* check_changelog_modified: git diff --name-only
DiffWorktree ==
  /\ pc = "diff_worktree"
  /\ \E reply \in Replies :
       /\ git_log' = Append(git_log, [cmd |-> "diff --name-only", status |-> reply.status])
       /\ frame' = [frame EXCEPT !.unstaged_output = run_git_command(reply).out]
       /\ listed' = listed \cup Listed(frame.changelog_files, reply)
       /\ IF InOutput(frame.changelog_files, run_git_command(reply).out)
          THEN modified' = "True" /\ pc' = "locate"
          ELSE modified' = "False" /\ pc' = "decide"
  /\ UNCHANGED <<stdin, exists, prompt, cwd, content, empty_sections,
                 error, stdout, stderr, exit_code, fs_log, facts>>

RECURSIVE FirstExistingFrom(_)
\* for pattern in [...]: if path.exists(): break, from the i-th name on.
FirstExistingFrom(i) ==
  IF i > Len(ChangelogNames) THEN 0
  ELSE IF exists[ChangelogNames[i]] THEN i
  ELSE FirstExistingFrom(i + 1)

\* The index in ChangelogNames of the first name that exists, 0 for none.
FirstExisting == FirstExistingFrom(1)

\* check_changelog_modified has returned and its variables are gone;
\* check_unused_sections: the changelog file to read
LocateChangelog ==
  /\ pc = "locate"
  /\ IF cwd \in {"null", "number"} THEN
       Raise("TypeError") /\ UNCHANGED <<fs_log, empty_sections>>
     ELSE IF cwd = "denied" THEN
       \* Path.exists raises the PermissionError of stat up to Python 3.13 and
       \* returns False from Python 3.14 on.
       \/ /\ Raise("PermissionError")
          /\ fs_log' = Looked(1)
          /\ UNCHANGED empty_sections
       \/ /\ fs_log' = Looked(Len(ChangelogNames))
          /\ empty_sections' = <<>>
          /\ pc' = "decide"
          /\ UNCHANGED error
     ELSE IF FirstExisting = 0 THEN
       /\ fs_log' = Looked(Len(ChangelogNames))
       /\ empty_sections' = <<>>
       /\ pc' = "decide"
       /\ UNCHANGED error
     ELSE
       /\ fs_log' = Looked(FirstExisting)
       /\ pc' = "read"
       /\ UNCHANGED <<error, empty_sections>>
  /\ frame' = NoFrame
  /\ UNCHANGED <<stdin, exists, prompt, cwd, modified, content,
                 stdout, stderr, exit_code, git_log, listed, facts>>

\* check_unused_sections: read_text, which may fail, and the search for empty
\* sections
ReadChangelog ==
  /\ pc = "read"
  /\ fs_log' = Append(fs_log, [op |-> "read_text", file |-> ChangelogNames[FirstExisting]])
  /\ \/ \E a \in ChangelogAnalyses :
          /\ content' = [read |-> TRUE, doc |-> a.doc]
          /\ facts' = FactsOf(a.doc)
          /\ empty_sections' = a.empty_sections
     \/ /\ content' = content
        /\ facts' = facts
        /\ empty_sections' = <<>>
  /\ pc' = "decide"
  /\ UNCHANGED <<stdin, exists, prompt, cwd, frame, modified, error, stdout,
                 stderr, exit_code, git_log, listed>>

\* main printing the cleanup payload as a warning: it exits 0 after it.
DecideWarning ==
  /\ pc = "decide"
  /\ IF modified = "True" THEN
       IF empty_sections # <<>>
       THEN stdout' = Append(stdout, CleanupRequired(empty_sections)) /\ Exit(0)
       ELSE stdout' = stdout /\ Exit(0)
     ELSE
       stdout' = Append(stdout, UpdateRequired) /\ Exit(2)
  /\ frame' = NoFrame
  /\ content' = NoContent
  /\ UNCHANGED <<stdin, exists, prompt, cwd, modified, empty_sections, error,
                 stderr, git_log, fs_log, listed, facts>>

\* The functions have returned and their variables are gone; main: the decision
Decide ==
  /\ pc = "decide"
  /\ IF modified = "True" THEN
       IF empty_sections # <<>>
       THEN stdout' = Append(stdout, CleanupRequired(empty_sections)) /\ Exit(2)
       ELSE stdout' = stdout /\ Exit(0)
     ELSE
       stdout' = Append(stdout, UpdateRequired) /\ Exit(2)
  /\ frame' = NoFrame
  /\ content' = NoContent
  /\ UNCHANGED <<stdin, exists, prompt, cwd, modified, empty_sections, error,
                 stderr, git_log, fs_log, listed, facts>>

\* An except clause that blocks: the payload on standard output, exit code 2.
FailClosed ==
  /\ pc = "except"
  /\ stdout' = Append(stdout, UpdateRequired)
  /\ Exit(2)
  /\ UNCHANGED <<stdin, exists, prompt, cwd, frame, modified, content,
                 empty_sections, error, stderr, git_log, fs_log, listed, facts>>

\* main: except Exception as e
FailOpen ==
  /\ pc = "except"
  /\ stderr' = Append(stderr, [error |-> error])
  /\ Exit(0)
  /\ UNCHANGED <<stdin, exists, prompt, cwd, frame, modified, content,
                 empty_sections, error, stdout, git_log, fs_log, listed, facts>>

Next ==
  \/ ReadInput
  \/ Classify
  \/ RevParse
  \/ FindChangelogs
  \/ DiffCached
  \/ DiffWorktree
  \/ LocateChangelog
  \/ ReadChangelog
  \/ Decide
  \/ FailOpen

Spec == Init /\ [][Next]_vars

----------------------------------------------------------------------------
\* The vocabulary of the properties

Done == pc = "done"

\* The prompts is_commit_attempt accepts.
CommitPrompts == {p \in Prompts \cup {<<>>} : is_commit_attempt(Concat(p))}

\* main has read a prompt that matches a commit phrase pattern.
CommitIntent == prompt.type = "str" /\ prompt.words \in CommitPrompts

\* main has read a prompt that is a string and matches no pattern.
NoCommitIntent == prompt.type = "str" /\ prompt.words \notin CommitPrompts

\* The probe has run and found a repository, or found none.
InRepository == git_log # <<>> /\ git_log[1].status = "exit0"
OutsideRepository == git_log # <<>> /\ git_log[1].status # "exit0"

\* Both list queries have run, and how they ended.
BothListsQueried == Len(git_log) = 3
BothListsRead ==
  BothListsQueried /\ git_log[2].status = "exit0" /\ git_log[3].status = "exit0"
BothListsFailed ==
  BothListsQueried /\ git_log[2].status # "exit0" /\ git_log[3].status # "exit0"
BothListsRaised ==
  BothListsQueried /\ git_log[2].status = "raised" /\ git_log[3].status = "raised"

\* The changelog names that exist at the top of the working directory.
Existing == {n \in Candidates : exists[n]}

\* The files check_unused_sections has read.
Analysed == {fs_log[i].file : i \in {j \in 1..Len(fs_log) : fs_log[j].op = "read_text"}}

\* There is one changelog, git lists it as staged or modified, and
\* check_changelog_modified returned True.
ChangelogTouched ==
  /\ modified = "True"
  /\ Cardinality(Existing) = 1
  /\ listed = Existing

\* The outcomes of a run.
Allowed == exit_code = 0 /\ stdout = <<>>
BlockedWith(payload) == exit_code = 2 /\ stdout = <<payload>>

----------------------------------------------------------------------------
\* The properties

\* C1: a run on a prompt that matches a commit phrase pattern, in a working
\* directory where the repository probe returned non-zero or failed, ends with
\* exit code 0 and nothing on standard output, whatever files the directory
\* holds and whatever they contain.
C1_OutsideRepositoryAllows ==
  (Done /\ CommitIntent /\ OutsideRepository) => Allowed

\* C2: a run on a commit prompt where the changelog is in the staged or the
\* unstaged list and its Unreleased section has a category heading with only
\* whitespace and comments beneath it ends with exit code 2 and the cleanup
\* payload, which names exactly the categories that are present and empty, in
\* the order Added, Changed, Deprecated, Removed, Fixed, Security.
C2_CleanupListsExactlyTheEmptyCategories ==
  (Done /\ CommitIntent /\ ChangelogTouched /\ facts.read /\ facts.unique
     /\ facts.empty # <<>>)
    => BlockedWith(CleanupRequired(facts.empty))

\* C3: a run on a commit prompt inside a repository whose top-level changelog
\* exists and is a path of neither the staged nor the unstaged list ends with
\* exit code 2 and the update payload; a path in a subdirectory, or one that
\* merely contains the changelog's name, does not count.
C3_UntouchedChangelogBlocks ==
  (Done /\ CommitIntent /\ cwd = "path" /\ InRepository /\ Existing # {}
     /\ BothListsRead /\ listed = {})
    => BlockedWith(UpdateRequired)

\* C7: a run on a commit prompt where the changelog is in the staged or the
\* unstaged list and every category heading of its Unreleased section has
\* content that is neither whitespace nor a comment beneath it ends with exit
\* code 0 and nothing on standard output.
C7_TouchedChangelogWithoutEmptyCategoriesAllows ==
  (Done /\ CommitIntent /\ ChangelogTouched /\ facts.read /\ facts.unique
     /\ facts.empty = <<>>)
    => Allowed

\* C10: when check_changelog_modified returned True because git lists a
\* changelog file as staged or modified, the file check_unused_sections reads is
\* one git listed, never another changelog of the directory.
C10_AnalysesTheListedChangelog ==
  (modified = "True" /\ listed # {}) => Analysed \subseteq listed

C5_OtherPromptsAllowUnchecked ==
  NoCommitIntent =>
    /\ pc \in {"classify", "done"}
    /\ git_log = <<>>
    /\ fs_log = <<>>
    /\ stdout = <<>> /\ stderr = <<>>
    /\ error = "none"
    /\ Done => exit_code = 0

\* C5, its case: the prompt "what time is it" ended with exit code 0 in a
\* directory that holds a changelog.
C5_Witness ==
  /\ Done
  /\ prompt = [type |-> "str", words |-> <<"what", " ", "time", " ", "is", " ", "it">>]
  /\ Existing # {}
  /\ exit_code = 0

\* C6: a run on a commit prompt inside a repository where none of
\* CHANGELOG.md, CHANGELOG.MD, changelog.md exists at the top of the working
\* directory ends with exit code 2 and the update payload; the staged and the
\* unstaged list are never queried, so nothing they hold matters.
C6_NoChangelogBlocks ==
  (Done /\ CommitIntent /\ cwd = "path" /\ InRepository /\ Existing = {})
    => (BlockedWith(UpdateRequired) /\ Len(git_log) = 1 /\ modified = "False")

\* C6, its case: such a run ended, after all three names were asked for.
C6_Witness ==
  /\ Done /\ CommitIntent /\ cwd = "path" /\ InRepository /\ Existing = {}
  /\ Len(fs_log) = Len(ChangelogNames)
  /\ exit_code = 2

\* C8: a run ends with exit code 2 exactly if it printed a payload; it prints
\* at most one, which is the update payload when check_changelog_modified
\* returned False and the cleanup payload for the empty sections found when it
\* returned True; every other run ends with exit code 0 and nothing on
\* standard output.
C8_BlockIffOnePayload ==
  /\ exit_code \in {-1, 0, 2}
  /\ Done <=> exit_code # -1
  /\ (exit_code = 2) <=> (stdout # <<>>)
  /\ Len(stdout) <= 1
  /\ stdout # <<>> =>
       \/ /\ stdout[1] = UpdateRequired
          /\ modified = "False"
       \/ /\ stdout[1] = CleanupRequired(empty_sections)
          /\ modified = "True" /\ empty_sections # <<>>
  /\ UpdateRequired.reason # CleanupRequired(empty_sections).reason

\* C8, its case: a run ended with exit code 2 and the cleanup payload for two
\* categories.
C8_Witness ==
  /\ Done /\ exit_code = 2
  /\ stdout = <<CleanupRequired(<<"Added", "Fixed">>)>>

\* C9 as the specification states it: a git command that exits non-zero, times
\* out or cannot be run counts as empty output; after a failed probe
\* check_changelog_modified returns True, and where a changelog exists and
\* both list queries failed it returns False and the commit prompt is blocked
\* with the update payload.
C9_FailedQueriesCountAsEmpty ==
  /\ OutsideRepository => modified = "True"
  /\ (Done /\ CommitIntent /\ cwd = "path" /\ InRepository /\ Existing # {}
        /\ BothListsFailed)
       => (modified = "False" /\ BlockedWith(UpdateRequired))

\* C9 as the code has it: only a git command that timed out or could not be
\* run counts as empty output, one that exits non-zero keeps what it wrote;
\* after a failed probe check_changelog_modified returns True, and where a
\* changelog exists and both list queries timed out or could not be run it
\* returns False and the commit prompt is blocked with the update payload.
C9_RaisedQueriesCountAsEmpty ==
  /\ OutsideRepository => modified = "True"
  /\ (pc = "diff_worktree" /\ git_log[2].status = "raised")
       => frame.staged_output = <<>>
  /\ (pc \in {"locate", "decide"} /\ BothListsQueried /\ git_log[3].status = "raised")
       => frame.unstaged_output = <<>>
  /\ (BothListsRaised /\ pc # "diff_worktree") => modified = "False"
  /\ (Done /\ CommitIntent /\ cwd = "path" /\ InRepository /\ Existing # {}
        /\ BothListsRaised)
       => BlockedWith(UpdateRequired)

\* C9, its case: a changelog exists, both list queries were raised on, and the
\* run ended with exit code 2.
C9_Witness ==
  /\ Done /\ CommitIntent /\ cwd = "path" /\ InRepository /\ Existing # {}
  /\ BothListsRaised
  /\ exit_code = 2

====
